---- MODULE Spec2Model ----
(***************************************************************************)
(* Model of the content model and the function-call extractor of clust    *)
(* (src/src/messages/content.rs).  Text is a sequence of one-character    *)
(* strings (ASCII, so byte index = character index); str::find and str    *)
(* slicing are computed on those sequences as the code computes them.     *)
(***************************************************************************)
EXTENDS Integers, Sequences, FiniteSets, TLC

VARIABLES
  content,     \* the Content value under construction / being read
  arg,         \* the value the Content was converted from
  pc,          \* "new", "ready", "flattened", "extracted", "done"
  op,          \* the operation called on the value
  calls,       \* the stages that operation has run, in order
  text,        \* the text handed to the extractor (result of the flatten stage)
  xml,         \* the result of extract_first_function_calls
  result,      \* the value the operation returned
  dup_policy,  \* which occurrence of a repeated key the decoder keeps
  wire,        \* the JSON value written by, or handed to, the serializer
  client,      \* the Client: api_key, version, transport handle
  invs,        \* the create_a_message invocations, by id
  net          \* the requests the transport was given, in order

vars == <<content, arg, pc, op, calls, text, xml, result, dup_policy,
          wire, client, invs, net>>

contentVars == <<content, arg, pc, op, calls, text, xml, result, dup_policy, wire>>

clientVars == <<client, invs, net>>

(* ---------------------------------------------------------------- bounds *)
MaxPieces == 3
MaxBlocks == 2
MaxParams == 2
MaxCalls == 2

(* ------------------------------------------------------- text primitives *)
\* the literal "<function_calls>" (content.rs:140)
start_tag ==
  <<"<","f","u","n","c","t","i","o","n","_","c","a","l","l","s",">">>

\* the literal "</function_calls>" (content.rs:141)
end_tag ==
  <<"<","/","f","u","n","c","t","i","o","n","_","c","a","l","l","s",">">>

\* 0-based byte offsets, as in Rust: text[from..to]
Slice(s, from, to) == SubSeq(s, from + 1, to)

\* text[from..]
SliceFrom(s, from) == SubSeq(s, from + 1, Len(s))

\* a variable that holds no value yet
Unset == [tag |-> "Unset"]

None == [tag |-> "None"]
Some(v) == [tag |-> "Some", val |-> v]
Ok(v) == [tag |-> "Ok", val |-> v]
Err(e) == [tag |-> "Err", err |-> e]

\* pat occurs in s at 0-based offset i
MatchesAt(s, pat, i) ==
  /\ i >= 0
  /\ i + Len(pat) <= Len(s)
  /\ \A k \in 1..Len(pat) : s[i + k] = pat[k]

\* str::find: the byte offset of the first match, or None
RECURSIVE FindFrom(_, _, _)
FindFrom(s, pat, i) ==
  IF i + Len(pat) > Len(s) THEN None
  ELSE IF MatchesAt(s, pat, i) THEN Some(i)
  ELSE FindFrom(s, pat, i + 1)

Find(s, pat) == FindFrom(s, pat, 0)

\* str::rfind: the byte offset of the last match, or None
RECURSIVE RFindFrom(_, _, _)
RFindFrom(s, pat, i) ==
  IF i < 0 THEN None
  ELSE IF MatchesAt(s, pat, i) THEN Some(i)
  ELSE RFindFrom(s, pat, i - 1)

RFind(s, pat) == RFindFrom(s, pat, Len(s) - Len(pat))

(* ---------------------------------------------- extract_first_function_calls *)
\* variant: the end delimiter is searched in the whole text
end_index_of_whole_text(t, start_index) == Find(t, end_tag)

\* variant: the last end delimiter after the start delimiter bounds the span
end_index_of_last(t, start_index) ==
  LET rest == RFind(SliceFrom(t, start_index + Len(start_tag)), end_tag)
  IN  IF rest.tag = "Some"
        THEN Some(rest.val + start_index + Len(start_tag))
        ELSE None

\* variant: the offset found in the rest of the text is not moved back to the
\* whole text
end_index_of_relative(t, start_index) ==
  Find(SliceFrom(t, start_index + Len(start_tag)), end_tag)

\* line 148-151: the end delimiter is searched after the start delimiter
end_index_of(t, start_index) ==
  LET rest == Find(SliceFrom(t, start_index + Len(start_tag)), end_tag)
  IN  IF rest.tag = "Some"
        THEN Some(rest.val + start_index + Len(start_tag))
        ELSE None

\* variant: an unterminated region runs to the end of the text
extract_unterminated_to_end(t) ==
  LET start == Find(t, start_tag)
  IN  IF start.tag = "None" THEN None
      ELSE LET e == end_index_of(t, start.val)
           IN  IF e.tag = "None" THEN Some(SliceFrom(t, start.val))
               ELSE Some(Slice(t, start.val, e.val + Len(end_tag)))

\* variant: the region starts at the innermost start delimiter
extract_innermost(t) ==
  LET start == Find(t, start_tag)
  IN  IF start.tag = "None" THEN None
      ELSE LET e == end_index_of(t, start.val)
           IN  IF e.tag = "None" THEN None
               ELSE LET inner == RFind(Slice(t, 0, e.val), start_tag)
                    IN  Some(Slice(t, inner.val, e.val + Len(end_tag)))

OpenComment == <<"<", "!", "-", "-">>
CloseComment == <<"-", "-", ">">>

\* the text without its first <!-- ... --> comment
StripComment(t) ==
  LET open == Find(t, OpenComment)
  IN  IF open.tag = "None" THEN t
      ELSE LET close == Find(SliceFrom(t, open.val), CloseComment)
           IN  IF close.tag = "None" THEN t
               ELSE Slice(t, 0, open.val)
                      \o SliceFrom(t, open.val + close.val + Len(CloseComment))

\* variant: a region inside a comment is passed over
extract_outside_comments(t) ==
  LET u == StripComment(t)
      start == Find(u, start_tag)
  IN  IF start.tag = "None" THEN None
      ELSE LET e == end_index_of(u, start.val)
           IN  IF e.tag = "None" THEN None
               ELSE Some(Slice(u, start.val, e.val + Len(end_tag)))

extract_first_function_calls(t) ==
  LET start == Find(t, start_tag)
  IN  IF start.tag = "None" THEN None
      ELSE LET start_index == start.val
               e == end_index_of(t, start_index)
           IN  IF e.tag = "None" THEN None
               ELSE Some(Slice(t, start_index, e.val + Len(end_tag)))

(* ------------------------------------------------------------ Content model *)
SingleText(t) == [variant |-> "SingleText", text |-> t]
MultipleBlocks(bs) == [variant |-> "MultipleBlocks", blocks |-> bs]

\* the field type is the ContentType held in _type (Text, Image, TextDelta)
TextContentBlock(t) == [type |-> "Text", text |-> t]
ImageContentBlock(src) == [type |-> "Image", source |-> src]

base64(media_type, data) ==
  [type |-> "Base64", media_type |-> media_type, data |-> data]

\* variant: an empty string becomes an empty block list
ContentFromStr_empty_as_blocks(t) ==
  IF t = <<>> THEN MultipleBlocks(<<>>) ELSE SingleText(t)

\* impl From<&str> for Content
ContentFromStr(t) == SingleText(t)

\* variant: the block is built from the default source, not from the argument
ContentFromImage_default_source(src) ==
  MultipleBlocks(<<ImageContentBlock(base64("Jpeg", <<>>))>>)

\* impl From<ImageContentSource> for Content
ContentFromImage(src) == MultipleBlocks(<<ImageContentBlock(src)>>)

RECURSIVE FirstOfType(_, _, _)
FirstOfType(bs, type, i) ==
  IF i > Len(bs) THEN 0
  ELSE IF bs[i].type = type THEN i
  ELSE FirstOfType(bs, type, i + 1)

\* variant: the first Text block anywhere in the sequence is taken
flatten_into_text_any(c) ==
  IF c.variant = "SingleText" THEN Ok(c.text)
  ELSE IF Len(c.blocks) = 0 THEN Err("Empty")
  ELSE IF FirstOfType(c.blocks, "Text", 1) # 0
    THEN Ok(c.blocks[FirstOfType(c.blocks, "Text", 1)].text)
  ELSE Err("NotFoundTargetBlock")

\* variant: an Image block in first place flattens to the empty text
flatten_into_text_lenient(c) ==
  IF c.variant = "SingleText" THEN Ok(c.text)
  ELSE IF Len(c.blocks) = 0 THEN Err("Empty")
  ELSE IF c.blocks[1].type = "Text" THEN Ok(c.blocks[1].text)
  ELSE Ok(<<>>)

\* the texts of the Text blocks of bs, one after the other
RECURSIVE JoinTexts(_)
JoinTexts(bs) ==
  IF Len(bs) = 0 THEN <<>>
  ELSE (IF Head(bs).type = "Text" THEN Head(bs).text ELSE <<>>) \o JoinTexts(Tail(bs))

\* variant: the texts of all the Text blocks are joined
flatten_into_text_joined(c) ==
  IF c.variant = "SingleText" THEN Ok(c.text)
  ELSE IF Len(c.blocks) = 0 THEN Err("Empty")
  ELSE Ok(JoinTexts(c.blocks))

flatten_into_text(c) ==
  IF c.variant = "SingleText" THEN Ok(c.text)
  ELSE IF Len(c.blocks) = 0 THEN Err("Empty")
  ELSE IF c.blocks[1].type = "Text" THEN Ok(c.blocks[1].text)
  ELSE Err("NotFoundTargetBlock")

\* variant: the first Image block anywhere in the sequence is taken
flatten_into_image_source_any(c) ==
  IF c.variant = "SingleText" THEN Err("NotFoundTargetBlock")
  ELSE IF Len(c.blocks) = 0 THEN Err("Empty")
  ELSE IF FirstOfType(c.blocks, "Image", 1) # 0
    THEN Ok(c.blocks[FirstOfType(c.blocks, "Image", 1)].source)
  ELSE Err("NotFoundTargetBlock")

\* variant: no block at all is reported as a missing target block
flatten_into_image_source_no_empty(c) ==
  IF c.variant = "SingleText" THEN Err("NotFoundTargetBlock")
  ELSE IF Len(c.blocks) > 0 /\ c.blocks[1].type = "Image" THEN Ok(c.blocks[1].source)
  ELSE Err("NotFoundTargetBlock")

flatten_into_image_source(c) ==
  IF c.variant = "SingleText" THEN Err("NotFoundTargetBlock")
  ELSE IF Len(c.blocks) = 0 THEN Err("Empty")
  ELSE IF c.blocks[1].type = "Image" THEN Ok(c.blocks[1].source)
  ELSE Err("NotFoundTargetBlock")

(* ------------------------------------------------------------------ inputs *)
invoke == <<"i","n","v","o","k","e">>
tool_name == <<"t","o","o","l","_","n","a","m","e">>
parameters == <<"p","a","r","a","m","e","t","e","r","s">>
function_calls == <<"f","u","n","c","t","i","o","n","_","c","a","l","l","s">>

OpenTag(name) == <<"<">> \o name \o <<">">>
CloseTag(name) == <<"<", "/">> \o name \o <<">">>

\* the pieces free text is assembled from: both delimiters, an ordinary
\* character, and a start delimiter that lacks its closing '>'
Pieces == { start_tag, end_tag, <<"a">>, Slice(start_tag, 0, Len(start_tag) - 1) }

RECURSIVE Concats(_)
Concats(n) ==
  IF n = 0 THEN { <<>> }
  ELSE LET shorter == Concats(n - 1)
       IN  shorter \cup { s \o p : s \in shorter, p \in Pieces }

FreeTexts == Concats(MaxPieces)

Keys == { <<"k">>, <<"j">> }
Vals == { <<"v">>, <<"w">> }
Tools == { <<"t">>, <<"u">> }
Newlines == { <<>>, <<"\n">> }

RECURSIVE SeqsUpTo(_, _)
SeqsUpTo(S, n) ==
  IF n = 0 THEN { <<>> }
  ELSE LET shorter == SeqsUpTo(S, n - 1)
       IN  shorter \cup { Append(s, x) : s \in shorter, x \in S }

ParamLists == SeqsUpTo(Keys \X Vals, MaxParams)

Leaf(name, value) == OpenTag(name) \o value \o CloseTag(name)

RECURSIVE Leaves(_, _)
Leaves(ps, nl) ==
  IF ps = <<>> THEN <<>>
  ELSE Leaf(Head(ps)[1], Head(ps)[2]) \o nl \o Leaves(Tail(ps), nl)

\* a well-formed region, as in tests::exclude_function_calls
Region(tool, ps, nl) ==
  start_tag \o nl \o OpenTag(invoke) \o nl
    \o Leaf(tool_name, tool) \o nl
    \o OpenTag(parameters) \o nl \o Leaves(ps, nl) \o CloseTag(parameters) \o nl
    \o CloseTag(invoke) \o nl \o end_tag

Regions == { Region(t, ps, nl) : t \in Tools, ps \in ParamLists, nl \in Newlines }

SecondRegion == Region(<<"u">>, << <<(<<"j">>), (<<"w">>)>> >>, <<>>)

\* delimited spans that do not have the invoke / tool_name / parameters shape
Malformed ==
  { start_tag \o end_tag,
    start_tag \o <<"a">> \o end_tag,
    start_tag \o OpenTag(invoke) \o Leaf(tool_name, <<"t">>) \o CloseTag(invoke) \o end_tag,
    start_tag \o OpenTag(invoke) \o OpenTag(parameters) \o CloseTag(parameters)
       \o CloseTag(invoke) \o end_tag,
    start_tag \o OpenTag(invoke) \o Leaf(tool_name, <<"t">>)
       \o OpenTag(parameters) \o OpenTag(<<"k">>) \o <<"v">> \o CloseTag(parameters)
       \o CloseTag(invoke) \o end_tag }

Prefixes == { <<>>, <<"a">>, end_tag }
Suffixes == { <<>>, <<"a">>, <<"a">> \o SecondRegion }

DocTexts == { p \o r \o s : p \in Prefixes, r \in Regions \cup Malformed, s \in Suffixes }

\* delimiter pairs inside a comment, as in test_extract_first_function_calls,
\* here ahead of any other region
CommentedPairs == { start_tag \o <<"a">> \o end_tag, SecondRegion }

CommentCases ==
  { [text |-> p \o OpenComment \o c \o CloseComment \o s, pair |-> c] :
      p \in { <<>>, <<"a">>, end_tag }, c \in CommentedPairs,
      s \in { <<>>, <<"a">> } \cup Regions }

CommentTexts == { c.text : c \in CommentCases }

Texts == FreeTexts \cup DocTexts \cup CommentTexts

ImageSources == { base64("Jpeg", <<>>), base64("Png", <<"d">>) }

BlockTexts == { <<>>, <<"a">>, SecondRegion }

Blocks == { TextContentBlock(t) : t \in BlockTexts }
            \cup { ImageContentBlock(s) : s \in ImageSources }

BlockLists == SeqsUpTo(Blocks, MaxBlocks)

(* --------------------------------------------- FunctionCalls::deserialize *)
(* The decoder is not part of the sources at hand; it is modelled from the  *)
(* specification (4.2 Decoding): one <invoke> element holding <tool_name>   *)
(* and <parameters>, whose children are leaf elements giving one key/value  *)
(* pair each.  Which value a repeated key keeps is left open (the variable  *)
(* dup_policy).                                                             *)
IsSpace(c) == c \in { "\n", " ", "\t", "\r" }

RECURSIVE IndexOf(_, _, _)
IndexOf(s, c, i) ==
  IF i > Len(s) THEN 0
  ELSE IF s[i] = c THEN i
  ELSE IndexOf(s, c, i + 1)

RECURSIVE Lex(_)
Lex(s) ==
  IF s = <<>> THEN <<>>
  ELSE IF s[1] = "<"
    THEN LET gt == IndexOf(s, ">", 1)
         IN  IF gt = 0 THEN << [k |-> "bad", v |-> s] >>
             ELSE LET body == SubSeq(s, 2, gt - 1)
                      tok == IF body # <<>> /\ body[1] = "/"
                               THEN [k |-> "close", v |-> Tail(body)]
                               ELSE [k |-> "open", v |-> body]
                  IN  <<tok>> \o Lex(SubSeq(s, gt + 1, Len(s)))
    ELSE LET lt == IndexOf(s, "<", 1)
             stop == IF lt = 0 THEN Len(s) + 1 ELSE lt
         IN  << [k |-> "text", v |-> SubSeq(s, 1, stop - 1)] >>
               \o Lex(SubSeq(s, stop, Len(s)))

IsBlank(tok) == tok.k = "text" /\ \A i \in 1..Len(tok.v) : IsSpace(tok.v[i])

Significant(ts) == SelectSeq(ts, LAMBDA tok : ~IsBlank(tok))

Is(ts, i, kind, name) == i <= Len(ts) /\ ts[i].k = kind /\ ts[i].v = name

\* a leaf element at position i: <name>text</name> or <name></name>;
\* yields the position after it, or 0 when there is no leaf at i
LeafEnd(ts, i) ==
  IF ~(i <= Len(ts) /\ ts[i].k = "open") THEN 0
  ELSE IF Is(ts, i + 1, "close", ts[i].v) THEN i + 2
  ELSE IF i + 1 <= Len(ts) /\ ts[i + 1].k = "text" /\ Is(ts, i + 2, "close", ts[i].v)
    THEN i + 3
  ELSE 0

LeafText(ts, i) == IF LeafEnd(ts, i) = i + 3 THEN ts[i + 1].v ELSE <<>>

\* the children of <parameters> from position i on, as (key, value) pairs
RECURSIVE Children(_, _, _)
Children(ts, i, acc) ==
  IF Is(ts, i, "close", parameters) THEN [ok |-> TRUE, next |-> i + 1, pairs |-> acc]
  ELSE IF LeafEnd(ts, i) = 0 THEN [ok |-> FALSE, next |-> i, pairs |-> acc]
  ELSE Children(ts, LeafEnd(ts, i), Append(acc, <<ts[i].v, LeafText(ts, i)>>))

RECURSIVE FirstWins(_)
FirstWins(pairs) ==
  IF pairs = <<>> THEN [x \in {} |-> <<>>]
  ELSE LET rest == FirstWins(Tail(pairs))
           key == Head(pairs)[1]
       IN  [x \in DOMAIN rest \cup {key} |-> IF x = key THEN Head(pairs)[2] ELSE rest[x]]

RECURSIVE Reverse(_)
Reverse(s) == IF s = <<>> THEN <<>> ELSE Append(Reverse(Tail(s)), Head(s))

LastWins(pairs) == FirstWins(Reverse(pairs))

ToMap(pairs, policy) == IF policy = "first" THEN FirstWins(pairs) ELSE LastWins(pairs)

DecodeTokens(ts, policy) ==
  IF ~( /\ Is(ts, 1, "open", function_calls)
        /\ Is(ts, 2, "open", invoke)
        /\ Is(ts, 3, "open", tool_name)
        /\ LeafEnd(ts, 3) # 0
        /\ Is(ts, LeafEnd(ts, 3), "open", parameters) )
    THEN Err("Deserialize")
  ELSE LET cs == Children(ts, LeafEnd(ts, 3) + 1, <<>>)
       IN  IF /\ cs.ok
              /\ Is(ts, cs.next, "close", invoke)
              /\ Is(ts, cs.next + 1, "close", function_calls)
              /\ Len(ts) = cs.next + 1
             THEN Ok([invoke |-> [tool_name |-> LeafText(ts, 3),
                                  parameters |-> ToMap(cs.pairs, policy)]])
             ELSE Err("Deserialize")

deserialize(x, policy) == DecodeTokens(Significant(Lex(x)), policy)

(* ------------------------------------------------------------ serialization *)
(* JSON values: a string, an array of values, an object with its fields in  *)
(* the order they were written, or some other value (null).  A string that  *)
(* names an enum variant is kept apart from a string of text.               *)
JStr(chars) == [j |-> "string", s |-> chars]
JEnum(name) == [j |-> "string", enum |-> name]
JArr(items) == [j |-> "array", items |-> items]
JObj(fields) == [j |-> "object", fields |-> fields]
JNull == [j |-> "null"]

\* impl_enum_string_serialization!(ContentType, ...)
content_type_string == [Text |-> "text", Image |-> "image", TextDelta |-> "text_delta"]

\* impl_enum_string_serialization!(ImageSourceType, ...)
image_source_type_string == [Base64 |-> "base64"]

\* variant: Png is written with the media type of Jpeg
image_media_type_string_png_as_jpeg ==
  [Jpeg |-> "image/jpeg", Png |-> "image/jpeg", Gif |-> "image/gif", Webp |-> "image/webp"]

\* impl_enum_string_serialization!(ImageMediaType, ...)
image_media_type_string ==
  [Jpeg |-> "image/jpeg", Png |-> "image/png", Gif |-> "image/gif", Webp |-> "image/webp"]

\* the variant a wire string names, if any (the first one in declaration order)
ParseEnum(table, order, v) ==
  IF v.j = "string" /\ "enum" \in DOMAIN v /\ \E i \in 1..Len(order) : table[order[i]] = v.enum
    THEN Some(order[CHOOSE i \in 1..Len(order) :
                      /\ table[order[i]] = v.enum
                      /\ \A k \in 1..(i - 1) : table[order[k]] # v.enum])
    ELSE None

ContentTypes == << "Text", "Image", "TextDelta" >>
ImageSourceTypes == << "Base64" >>
ImageMediaTypes == << "Jpeg", "Png", "Gif", "Webp" >>

RECURSIVE FieldFrom(_, _, _)
FieldFrom(fields, name, i) ==
  IF i > Len(fields) THEN None
  ELSE IF fields[i][1] = name THEN Some(fields[i][2])
  ELSE FieldFrom(fields, name, i + 1)

\* the value of an object's field, looked up by name
Field(v, name) == IF v.j = "object" THEN FieldFrom(v.fields, name, 1) ELSE None

IsText(v) == v.tag = "Some" /\ v.val.j = "string" /\ "s" \in DOMAIN v.val

\* #[derive(Serialize)] struct ImageContentSource: type, media_type, data
serialize_image_content_source(src) ==
  JObj(<< <<"type", JEnum(image_source_type_string[src.type])>>,
          <<"media_type", JEnum(image_media_type_string[src.media_type])>>,
          <<"data", JStr(src.data)>> >>)

\* variant: the text is written before the discriminant
serialize_text_content_block_text_first(b) ==
  JObj(<< <<"text", JStr(b.text)>>,
          <<"type", JEnum(content_type_string[b.type])>> >>)

\* #[derive(Serialize)] struct TextContentBlock: type, text
serialize_text_content_block(b) ==
  JObj(<< <<"type", JEnum(content_type_string[b.type])>>,
          <<"text", JStr(b.text)>> >>)

\* #[derive(Serialize)] struct ImageContentBlock: type, source
serialize_image_content_block(b) ==
  JObj(<< <<"type", JEnum(content_type_string[b.type])>>,
          <<"source", serialize_image_content_source(b.source)>> >>)

\* #[derive(Deserialize)] struct ImageContentSource
deserialize_image_content_source(v) ==
  LET ty == IF Field(v, "type").tag = "Some"
              THEN ParseEnum(image_source_type_string, ImageSourceTypes, Field(v, "type").val)
              ELSE None
      mt == IF Field(v, "media_type").tag = "Some"
              THEN ParseEnum(image_media_type_string, ImageMediaTypes, Field(v, "media_type").val)
              ELSE None
      data == Field(v, "data")
  IN  IF ty.tag = "Some" /\ mt.tag = "Some" /\ IsText(data)
        THEN Ok([type |-> ty.val, media_type |-> mt.val, data |-> data.val.s])
        ELSE Err("Json")

\* #[derive(Deserialize)] struct TextContentBlock
deserialize_text_content_block(v) ==
  LET ty == IF Field(v, "type").tag = "Some"
              THEN ParseEnum(content_type_string, ContentTypes, Field(v, "type").val)
              ELSE None
      txt == Field(v, "text")
  IN  IF ty.tag = "Some" /\ IsText(txt)
        THEN Ok([type |-> ty.val, text |-> txt.val.s])
        ELSE Err("Json")

\* #[derive(Deserialize)] struct ImageContentBlock
deserialize_image_content_block(v) ==
  LET ty == IF Field(v, "type").tag = "Some"
              THEN ParseEnum(content_type_string, ContentTypes, Field(v, "type").val)
              ELSE None
      src == IF Field(v, "source").tag = "Some"
               THEN deserialize_image_content_source(Field(v, "source").val)
               ELSE Err("Json")
  IN  IF ty.tag = "Some" /\ src.tag = "Ok"
        THEN Ok([type |-> ty.val, source |-> src.val])
        ELSE Err("Json")

(* The bodies of impl_enum_struct_serialization! and                        *)
(* impl_enum_with_string_or_array_serialization! are not part of the        *)
(* sources at hand; the four operators below follow the specification (4.1  *)
(* Serialization contract) and the macro invocations at lines 77-81 and     *)
(* 189-194.                                                                 *)
serialize_content_block(b) ==
  IF b.type = "Text" THEN serialize_text_content_block(b)
  ELSE serialize_image_content_block(b)

\* the discriminant field selects the block variant
deserialize_content_block(v) ==
  LET tag == Field(v, "type")
  IN  IF tag.tag = "Some" /\ tag.val = JEnum("text")
        THEN deserialize_text_content_block(v)
      ELSE IF tag.tag = "Some" /\ tag.val = JEnum("image")
        THEN deserialize_image_content_block(v)
      ELSE Err("Json")

serialize_content(c) ==
  IF c.variant = "SingleText" THEN JStr(c.text)
  ELSE JArr([i \in 1..Len(c.blocks) |-> serialize_content_block(c.blocks[i])])

deserialize_content(v) ==
  IF v.j = "string" /\ "s" \in DOMAIN v THEN Ok(SingleText(v.s))
  ELSE IF v.j = "array"
    THEN IF \A i \in 1..Len(v.items) : deserialize_content_block(v.items[i]).tag = "Ok"
           THEN Ok(MultipleBlocks([i \in 1..Len(v.items) |->
                                     deserialize_content_block(v.items[i]).val]))
           ELSE Err("Json")
  ELSE Err("Json")

\* JSON values as they may arrive: the well-formed ones in both field orders,
\* and ones whose discriminant or shape does not fit
WireBlocks ==
  { serialize_text_content_block(TextContentBlock(<<"a">>)),
    serialize_text_content_block_text_first(TextContentBlock(<<"a">>)),
    serialize_image_content_block(ImageContentBlock(base64("Png", <<"d">>))),
    serialize_image_content_block(ImageContentBlock(base64("Webp", <<>>))),
    JObj(<< <<"type", JEnum("text_delta")>>, <<"text", JStr(<<"a">>)>> >>),
    JObj(<< <<"type", JEnum("image")>>, <<"text", JStr(<<"a">>)>> >>),
    JObj(<< <<"text", JStr(<<"a">>)>> >>),
    JStr(<<"a">>) }

WireInputs ==
  { JStr(t) : t \in { <<>>, <<"a">>, <<"[", "]">> } }
    \cup { JArr(items) : items \in SeqsUpTo(WireBlocks, MaxBlocks) }
    \cup { JNull, serialize_text_content_block(TextContentBlock(<<"a">>)) }

(* ----------------------------------------------- ImageMediaType::from_path *)
RECURSIVE LastIndexOf(_, _, _)
LastIndexOf(s, c, i) ==
  IF i < 1 THEN 0
  ELSE IF s[i] = c THEN i
  ELSE LastIndexOf(s, c, i - 1)

RECURSIVE StripTrailing(_, _)
StripTrailing(s, c) ==
  IF s # <<>> /\ s[Len(s)] = c THEN StripTrailing(SubSeq(s, 1, Len(s) - 1), c) ELSE s

\* Path::file_name: the last component, unless it is empty, "." or ".."
file_name(path) ==
  LET p == StripTrailing(path, "/")
      name == SubSeq(p, LastIndexOf(p, "/", Len(p)) + 1, Len(p))
  IN  IF name = <<>> \/ name = <<".">> \/ name = <<".", ".">> THEN None ELSE Some(name)

\* Path::extension: what follows the last '.' of the file name; None when the
\* file name has no '.', or only a leading one
extension(path) ==
  LET f == file_name(path)
  IN  IF f.tag = "None" THEN None
      ELSE LET dot == LastIndexOf(f.val, ".", Len(f.val))
           IN  IF dot <= 1 THEN None
               ELSE Some(SubSeq(f.val, dot + 1, Len(f.val)))

ext_jpeg == <<"j","p","e","g">>
ext_jpg == <<"j","p","g">>
ext_png == <<"p","n","g">>
ext_gif == <<"g","i","f">>
ext_webp == <<"w","e","b","p">>

ImageMediaTypeParseError(kind, ext) == [kind |-> kind, ext |-> ext]

\* variant: the arm for "jpg" is missing
from_path_without_jpg(path) ==
  LET ext == extension(path)
  IN  IF ext.tag = "None" THEN Err(ImageMediaTypeParseError("NotFound", <<>>))
      ELSE IF ext.val = ext_jpeg THEN Ok("Jpeg")
      ELSE IF ext.val = ext_png THEN Ok("Png")
      ELSE IF ext.val = ext_gif THEN Ok("Gif")
      ELSE IF ext.val = ext_webp THEN Ok("Webp")
      ELSE Err(ImageMediaTypeParseError("NotSupported", ext.val))

from_path(path) ==
  LET ext == extension(path)
  IN  IF ext.tag = "None" THEN Err(ImageMediaTypeParseError("NotFound", <<>>))
      ELSE IF ext.val = ext_jpeg \/ ext.val = ext_jpg THEN Ok("Jpeg")
      ELSE IF ext.val = ext_png THEN Ok("Png")
      ELSE IF ext.val = ext_gif THEN Ok("Gif")
      ELSE IF ext.val = ext_webp THEN Ok("Webp")
      ELSE Err(ImageMediaTypeParseError("NotSupported", ext.val))

\* paths: an optional directory (one of them with a dot in its name), a stem,
\* and an extension or none
Dirs == { <<>>, <<"d", "/">>, <<"d", ".", "p", "n", "g", "/">> }
Stems == { <<"a">>, <<"a", ".", "b">> }
Extensions == { ext_jpeg, ext_jpg, ext_png, ext_gif, ext_webp,
                <<"b","m","p">>, <<"J","P","G">>, <<>> }
BareNames == { <<"a">>, <<".","p","n","g">>, <<"p", "n", "g">> }

PathCases ==
  { [path |-> d \o st \o <<".">> \o e, ext |-> Some(e)] :
      d \in Dirs, st \in Stems, e \in Extensions }
    \cup { [path |-> d \o n, ext |-> None] : d \in Dirs, n \in BareNames }

Paths == { c.path : c \in PathCases }

(* ------------------------------------------------------------------ Client *)
ApiKeys == { "key-a", "key-b" }

\* Version's Display (the version header value)
version_to_string == [V2023_06_01 |-> "2023-06-01"]

\* the fixed endpoint of the Messages API
Endpoint == "/v1/messages"

\* Client::new(api_key, version, client)
NewClient(api_key, version, http) ==
  [api_key |-> api_key, version |-> version, client |-> http]

\* variant: the version header is not attached
post_without_version(c, endpoint) ==
  [method |-> "POST", endpoint |-> endpoint,
   headers |-> << <<"x-api-key", c.api_key>> >>]

\* variant: the key header does not come from the client
post_with_fixed_key(c, endpoint) ==
  [method |-> "POST", endpoint |-> endpoint,
   headers |-> << <<"x-api-key", "key-a">>,
                  <<"anthropic-version", version_to_string[c.version]>> >>]

\* Client::post(&self, endpoint)
post(c, endpoint) ==
  [method |-> "POST", endpoint |-> endpoint,
   headers |-> << <<"x-api-key", c.api_key>>,
                  <<"anthropic-version", version_to_string[c.version]>> >>]

RequestBodies == { "body-1", "body-2" }

\* what the transport can come back with
Outcomes == { "transport_error", "success", "api_error", "malformed" }

\* the typed result of one outcome
MessagesResult(outcome) ==
  IF outcome = "success" THEN Ok("MessagesResponseBody")
  ELSE IF outcome = "api_error" THEN Err("ApiError")
  ELSE IF outcome = "transport_error" THEN Err("Transport")
  ELSE Err("Decode")

IdleInvocation == [st |-> "idle", body |-> "none", result |-> Unset]

(* ------------------------------------------------------------ state machine *)
\* FunctionCallsExcludingError, by kind; inner is the flatten error it wraps
ExcludingError(kind, inner) == [kind |-> kind, inner |-> inner]

Init ==
  /\ content = SingleText(<<>>)
  /\ arg = [kind |-> "none"]
  /\ pc = "new"
  /\ op = "none"
  /\ calls = <<>>
  /\ text = Unset
  /\ xml = Unset
  /\ result = Unset
  /\ dup_policy \in { "first", "last" }
  /\ wire = Unset
  /\ client = Unset
  /\ invs = <<>>
  /\ net = <<>>

\* Content::from(&str)
FromStr(t) ==
  /\ pc = "new"
  /\ content' = ContentFromStr(t)
  /\ arg' = [kind |-> "str", val |-> t]
  /\ pc' = "ready"
  /\ UNCHANGED <<op, calls, text, xml, result, dup_policy, wire, client, invs, net>>

\* Content::from(ImageContentSource)
FromImage(src) ==
  /\ pc = "new"
  /\ content' = ContentFromImage(src)
  /\ arg' = [kind |-> "image", val |-> src]
  /\ pc' = "ready"
  /\ UNCHANGED <<op, calls, text, xml, result, dup_policy, wire, client, invs, net>>

\* Content::MultipleBlocks(vec![...])
FromBlocks(bs) ==
  /\ pc = "new"
  /\ content' = MultipleBlocks(bs)
  /\ arg' = [kind |-> "blocks", val |-> bs]
  /\ pc' = "ready"
  /\ UNCHANGED <<op, calls, text, xml, result, dup_policy, wire, client, invs, net>>

FlattenIntoText ==
  /\ pc = "ready"
  /\ op' = "flatten_into_text"
  /\ result' = flatten_into_text(content)
  /\ pc' = "done"
  /\ UNCHANGED <<content, arg, calls, text, xml, dup_policy, wire, client, invs, net>>

FlattenIntoImageSource ==
  /\ pc = "ready"
  /\ op' = "flatten_into_image_source"
  /\ result' = flatten_into_image_source(content)
  /\ pc' = "done"
  /\ UNCHANGED <<content, arg, calls, text, xml, dup_policy, wire, client, invs, net>>

\* variant: a flatten failure is replaced by the empty text and the call goes on
ExcludeFlatten_or_default ==
  /\ pc = "ready"
  /\ op' = "exclude_function_calls"
  /\ calls' = << "flatten_into_text" >>
  /\ LET r == flatten_into_text(content)
     IN  text' = IF r.tag = "Err" THEN Ok(<<>>) ELSE r
  /\ pc' = "flattened"
  /\ UNCHANGED <<content, arg, xml, result, dup_policy, wire, client, invs, net>>

\* exclude_function_calls, line 129: let content = self.flatten_into_text()?;
ExcludeFlatten ==
  /\ pc = "ready"
  /\ op' = "exclude_function_calls"
  /\ calls' = << "flatten_into_text" >>
  /\ LET r == flatten_into_text(content)
     IN  /\ text' = r
         /\ IF r.tag = "Err"
              THEN /\ result' = Err(ExcludingError("ContentFlatteningError", r.err))
                   /\ pc' = "done"
              ELSE /\ result' = result
                   /\ pc' = "flattened"
  /\ UNCHANGED <<content, arg, xml, dup_policy, wire, client, invs, net>>

\* variant: a missing span is replaced by the empty document and decoded
ExcludeExtract_or_default ==
  /\ pc = "flattened"
  /\ calls' = Append(calls, "extract_first_function_calls")
  /\ LET x == extract_first_function_calls(text.val)
     IN  xml' = IF x.tag = "None" THEN Some(<<>>) ELSE x
  /\ pc' = "extracted"
  /\ UNCHANGED <<content, arg, op, text, result, dup_policy, wire, client, invs, net>>

\* lines 131-132: extract_first_function_calls(content).ok_or(XmlNotFound)?
ExcludeExtract ==
  /\ pc = "flattened"
  /\ calls' = Append(calls, "extract_first_function_calls")
  /\ LET x == extract_first_function_calls(text.val)
     IN  /\ xml' = x
         /\ IF x.tag = "None"
              THEN /\ result' = Err(ExcludingError("XmlNotFound", "none"))
                   /\ pc' = "done"
              ELSE /\ result' = result
                   /\ pc' = "extracted"
  /\ UNCHANGED <<content, arg, op, text, dup_policy, wire, client, invs, net>>

\* variant: a decoding failure yields the default invocation
ExcludeDecode_or_default ==
  /\ pc = "extracted"
  /\ calls' = Append(calls, "deserialize")
  /\ LET d == deserialize(xml.val, dup_policy)
     IN  result' = IF d.tag = "Ok" THEN d
                   ELSE Ok([invoke |-> [tool_name |-> <<>>, parameters |-> <<>>]])
  /\ pc' = "done"
  /\ UNCHANGED <<content, arg, op, text, xml, dup_policy, wire, client, invs, net>>

\* lines 134-135: FunctionCalls::deserialize(&xml)?
ExcludeDecode ==
  /\ pc = "extracted"
  /\ calls' = Append(calls, "deserialize")
  /\ LET d == deserialize(xml.val, dup_policy)
     IN  result' = IF d.tag = "Ok" THEN d
                   ELSE Err(ExcludingError("Deserialize", "none"))
  /\ pc' = "done"
  /\ UNCHANGED <<content, arg, op, text, xml, dup_policy, wire, client, invs, net>>

\* a direct call of the extractor, as in test_extract_first_function_calls
ExtractFirst(t) ==
  /\ pc = "new"
  /\ op' = "extract_first_function_calls"
  /\ calls' = << "extract_first_function_calls" >>
  /\ text' = Ok(t)
  /\ xml' = extract_first_function_calls(t)
  /\ pc' = "done"
  /\ UNCHANGED <<content, arg, result, dup_policy, wire, client, invs, net>>

\* serde_json::to_value(&content)
Serialize ==
  /\ pc = "ready"
  /\ op' = "serialize"
  /\ wire' = serialize_content(content)
  /\ pc' = "serialized"
  /\ UNCHANGED <<content, arg, calls, text, xml, result, dup_policy, client, invs, net>>

\* serde_json::from_value::<Content>(..) of what was just written
DeserializeBack ==
  /\ pc = "serialized"
  /\ op' = "round_trip"
  /\ result' = deserialize_content(wire)
  /\ pc' = "done"
  /\ UNCHANGED <<content, arg, calls, text, xml, dup_policy, wire, client, invs, net>>

\* serde_json::from_value::<Content>(..) of a value that arrived
Deserialize(v) ==
  /\ pc = "new"
  /\ op' = "deserialize"
  /\ wire' = v
  /\ result' = deserialize_content(v)
  /\ pc' = "done"
  /\ UNCHANGED <<content, arg, calls, text, xml, dup_policy, client, invs, net>>

\* ImageMediaType::from_path(&path)
FromPath(path) ==
  /\ pc = "new"
  /\ op' = "from_path"
  /\ arg' = [kind |-> "path", val |-> path]
  /\ result' = from_path(path)
  /\ pc' = "done"
  /\ UNCHANGED <<content, calls, text, xml, dup_policy, wire, client, invs, net>>

Next ==
  \/ \E path \in Paths : FromPath(path)
  \/ Serialize
  \/ DeserializeBack
  \/ \E v \in WireInputs : Deserialize(v)
  \/ \E t \in Texts : FromStr(t)
  \/ \E src \in ImageSources : FromImage(src)
  \/ \E bs \in BlockLists : FromBlocks(bs)
  \/ FlattenIntoText
  \/ FlattenIntoImageSource
  \/ ExcludeFlatten
  \/ ExcludeExtract
  \/ ExcludeDecode
  \/ \E t \in Texts : ExtractFirst(t)

Spec == Init /\ [][Next]_vars

(* ------------------------------------------------ create_a_message, concurrently *)
ClientInit ==
  /\ content = SingleText(<<>>)
  /\ arg = [kind |-> "none"]
  /\ pc = "new"
  /\ op = "none"
  /\ calls = <<>>
  /\ text = Unset
  /\ xml = Unset
  /\ result = Unset
  /\ dup_policy = "first"
  /\ wire = Unset
  /\ client \in { NewClient(k, "V2023_06_01", "http") : k \in ApiKeys }
  /\ invs = [i \in 1..MaxCalls |-> IdleInvocation]
  /\ net = <<>>

\* create_a_message up to its suspension point: the request is built with
\* Client::post, given the body, and handed to the transport
Call(i, body) ==
  /\ invs[i].st = "idle"
  /\ net' = Append(net, [inv |-> i, request |-> post(client, Endpoint), body |-> body])
  /\ invs' = [invs EXCEPT ![i] = [st |-> "sent", body |-> body, result |-> Unset]]
  /\ UNCHANGED client
  /\ UNCHANGED contentVars

\* the transport completes; the response is mapped to the typed result
Respond(i, outcome) ==
  /\ invs[i].st = "sent"
  /\ invs' = [invs EXCEPT ![i].st = "done", ![i].result = MessagesResult(outcome)]
  /\ UNCHANGED <<client, net>>
  /\ UNCHANGED contentVars

ClientNext ==
  \/ \E i \in 1..MaxCalls, body \in RequestBodies : Call(i, body)
  \/ \E i \in 1..MaxCalls, outcome \in Outcomes : Respond(i, outcome)

ClientSpec == ClientInit /\ [][ClientNext]_vars

(* ------------------------------------------------------------------ claims *)
ExtractorRan == xml.tag \in { "Some", "None" }

\* the first occurrence of the start delimiter is at offset i
FirstStart(t, i) ==
  /\ MatchesAt(t, start_tag, i)
  /\ \A j \in 0..(i - 1) : ~MatchesAt(t, start_tag, j)

\* the first occurrence of the end delimiter after the start delimiter at i is at e
FirstEndAfter(t, i, e) ==
  /\ e >= i + Len(start_tag)
  /\ MatchesAt(t, end_tag, e)
  /\ \A j \in (i + Len(start_tag))..(e - 1) : ~MatchesAt(t, end_tag, j)

Offsets(t) == 0..Len(t)

\* C1: when the text holds the start delimiter and, after the end of its
\* first occurrence, the end delimiter, the extractor returns exactly the
\* substring from the first start delimiter through the first end delimiter
\* found after it, both included.
C1_ExtractReturnsFirstSpan ==
  ExtractorRan =>
    \A i \in Offsets(text.val) : FirstStart(text.val, i) =>
      \A e \in Offsets(text.val) : FirstEndAfter(text.val, i, e) =>
        /\ xml.tag = "Some"
        /\ xml.val = SubSeq(text.val, i + 1, e + Len(end_tag))

\* a single region with free text before and after it was extracted verbatim
C1_Witness ==
  /\ ExtractorRan
  /\ xml.tag = "Some"
  /\ \E r \in Regions : xml.val = r /\ text.val = <<"a">> \o r \o <<"a">>

\* C2: the extractor yields None whenever the text has no start delimiter
\* (even if an end delimiter is present) and whenever the first start
\* delimiter is not followed by an end delimiter.
C2_ExtractNoneWhenDelimiterAbsent ==
  ExtractorRan =>
    LET t == text.val
        noStart == \A i \in Offsets(t) : ~MatchesAt(t, start_tag, i)
        noEndAfter == \A i \in Offsets(t) : FirstStart(t, i) =>
                        \A e \in Offsets(t) :
                          e >= i + Len(start_tag) => ~MatchesAt(t, end_tag, e)
    IN  (noStart \/ noEndAfter) => xml.tag = "None"

\* an end delimiter alone, with no start delimiter, gave None
C2_Witness ==
  /\ ExtractorRan
  /\ xml.tag = "None"
  /\ \E e \in Offsets(text.val) : MatchesAt(text.val, end_tag, e)
  /\ \A i \in Offsets(text.val) : ~MatchesAt(text.val, start_tag, i)

\* C3: a second start delimiter between the first start delimiter and the
\* first end delimiter is ordinary text: the span still runs from the first
\* start delimiter through the first end delimiter after it, and holds the
\* second start delimiter.
C3_SecondStartNotSpecial ==
  ExtractorRan =>
    \A i \in Offsets(text.val) : FirstStart(text.val, i) =>
      \A e \in Offsets(text.val) : FirstEndAfter(text.val, i, e) =>
        \A j \in (i + 1)..(e - 1) : MatchesAt(text.val, start_tag, j) =>
          /\ xml.tag = "Some"
          /\ xml.val = SubSeq(text.val, i + 1, e + Len(end_tag))
          /\ MatchesAt(xml.val, start_tag, 0)
          /\ MatchesAt(xml.val, start_tag, j - i)
          /\ MatchesAt(xml.val, end_tag, Len(xml.val) - Len(end_tag))

\* start, start, end: the span returned holds both start delimiters
C3_Witness ==
  /\ ExtractorRan
  /\ text.val = start_tag \o start_tag \o end_tag
  /\ xml.tag = "Some"
  /\ xml.val = text.val

Stages == << "flatten_into_text", "extract_first_function_calls", "deserialize" >>

Excluding == op = "exclude_function_calls"

\* a start delimiter followed, after its end, by an end delimiter
HasSpan(t) ==
  \E i \in Offsets(t) : MatchesAt(t, start_tag, i) /\
    \E e \in Offsets(t) : e >= i + Len(start_tag) /\ MatchesAt(t, end_tag, e)

\* C4: exclude_function_calls runs flatten, extract, decode in that order and
\* stops at the first failing stage: a flatten failure is returned with no
\* extraction attempted, a missing span is returned as XmlNotFound with no
\* decoding attempted, and an invocation is returned only after all three
\* stages succeeded.
C4_ExcludeStagesFailFast ==
  Excluding =>
    /\ Len(calls) \in 1..3 /\ calls = SubSeq(Stages, 1, Len(calls))
    /\ pc # "done" => calls = SubSeq(Stages, 1, IF pc = "flattened" THEN 1 ELSE 2)
    /\ flatten_into_text(content).tag = "Err" =>
         /\ pc = "done"
         /\ calls = SubSeq(Stages, 1, 1)
         /\ xml = Unset
         /\ result = Err(ExcludingError("ContentFlatteningError",
                                        flatten_into_text(content).err))
    /\ (flatten_into_text(content).tag = "Ok" /\ Len(calls) >= 2
          /\ ~HasSpan(flatten_into_text(content).val)) =>
         /\ pc = "done"
         /\ calls = SubSeq(Stages, 1, 2)
         /\ result = Err(ExcludingError("XmlNotFound", "none"))
    /\ (pc = "done" /\ result.tag = "Ok") =>
         /\ calls = Stages
         /\ text.tag = "Ok" /\ text = flatten_into_text(content)
         /\ xml.tag = "Some" /\ HasSpan(text.val)

\* a flatten failure ended the call after its first stage
C4_Witness ==
  /\ Excluding /\ pc = "done"
  /\ content.variant = "MultipleBlocks" /\ Len(content.blocks) = 2
  /\ content.blocks[1].type = "Image"
  /\ content.blocks[2] = TextContentBlock(SecondRegion)
  /\ calls = << "flatten_into_text" >>
  /\ result.tag = "Err"

\* C5: when the content flattens to a text with no delimited span,
\* exclude_function_calls fails with XmlNotFound and with no other kind.
C5_NoSpanIsXmlNotFound ==
  (Excluding /\ pc = "done" /\ flatten_into_text(content).tag = "Ok"
     /\ ~HasSpan(flatten_into_text(content).val)) =>
    /\ result.tag = "Err"
    /\ result.err.kind = "XmlNotFound"

\* plain text with no delimiter was reported as XmlNotFound
C5_Witness ==
  /\ Excluding /\ pc = "done"
  /\ content = SingleText(<<"a">>)
  /\ result = Err(ExcludingError("XmlNotFound", "none"))

\* every document of the model that holds a well-formed first region, with
\* the tool name and the children that region was written from
DocCases ==
  { [text |-> p \o Region(t, ps, nl) \o s, tool |-> t, children |-> ps] :
      p \in Prefixes, t \in Tools, ps \in ParamLists, nl \in Newlines, s \in Suffixes }

ChildKeys(ps) == { ps[i][1] : i \in 1..Len(ps) }

ChildValues(ps, key) == { ps[i][2] : i \in { j \in 1..Len(ps) : ps[j][1] = key } }

DistinctKeys(ps) == Cardinality(ChildKeys(ps)) = Len(ps)

\* C6: for a text holding one or more well-formed regions, possibly between
\* free text, exclude_function_calls returns the invocation of the first
\* region only: its tool_name is the text of that region's <tool_name>, and
\* its parameters hold exactly one entry (tag name -> text) per child of that
\* region's <parameters> (children of distinct names); later regions
\* contribute nothing.
C6_DecodesFirstRegionOnly ==
  (Excluding /\ pc = "done" /\ text.tag = "Ok") =>
    \A d \in DocCases : (text.val = d.text /\ DistinctKeys(d.children)) =>
      /\ result.tag = "Ok"
      /\ result.val.invoke.tool_name = d.tool
      /\ DOMAIN result.val.invoke.parameters = ChildKeys(d.children)
      /\ \A key \in ChildKeys(d.children) :
           { result.val.invoke.parameters[key] } = ChildValues(d.children, key)

\* two regions with free text around them; the first one, with two
\* parameters, was decoded
C6_Witness ==
  /\ Excluding /\ pc = "done"
  /\ content = SingleText(<<"a">>
        \o Region(<<"t">>, << <<(<<"k">>), (<<"v">>)>>, <<(<<"j">>), (<<"w">>)>> >>, <<"\n">>)
        \o <<"a">> \o SecondRegion)
  /\ result.tag = "Ok"
  /\ result.val.invoke.tool_name = <<"t">>
  /\ DOMAIN result.val.invoke.parameters = { <<"k">>, <<"j">> }
  /\ result.val.invoke.parameters[<<"k">>] = <<"v">>
  /\ result.val.invoke.parameters[<<"j">>] = <<"w">>

\* C8: flatten_into_text returns Ok(text) for SingleText(text); for
\* MultipleBlocks, Ok of the first block's text when the first block is a
\* Text block whatever follows, NotFoundTargetBlock when the first block is
\* not a Text block even if a later one is, and Empty for no blocks.
C8_FlattenIntoText ==
  (op = "flatten_into_text" /\ pc = "done") =>
    /\ arg.kind = "str" => result = Ok(arg.val)
    /\ arg.kind = "image" => result = Err("NotFoundTargetBlock")
    /\ arg.kind = "blocks" =>
         /\ arg.val = <<>> => result = Err("Empty")
         /\ \A t \in BlockTexts, rest \in BlockLists :
              arg.val = <<TextContentBlock(t)>> \o rest => result = Ok(t)
         /\ \A src \in ImageSources, rest \in BlockLists :
              arg.val = <<ImageContentBlock(src)>> \o rest =>
                result = Err("NotFoundTargetBlock")

\* an Image block followed by a Text block: NotFoundTargetBlock
C8_Witness ==
  /\ op = "flatten_into_text" /\ pc = "done"
  /\ arg.kind = "blocks" /\ Len(arg.val) = 2
  /\ arg.val[1].type = "Image" /\ arg.val[2].type = "Text"
  /\ result = Err("NotFoundTargetBlock")

C10_FromStrFlattenRoundTrip ==
  arg.kind = "str" =>
    /\ content.variant = "SingleText" /\ content.text = arg.val
    /\ (op = "flatten_into_text" /\ pc = "done") =>
         (result.tag = "Ok" /\ result.val = arg.val)

\* the empty string went through from and flatten_into_text
C10_Witness ==
  /\ arg.kind = "str" /\ arg.val = <<>>
  /\ op = "flatten_into_text" /\ pc = "done"
  /\ result = Ok(<<>>)

Flattening == op \in { "flatten_into_text", "flatten_into_image_source" }

\* C11: Content::from(S) is a one-element MultipleBlocks whose only block is
\* an Image block holding S, and flatten_into_image_source gives back Ok(S),
\* for every image source S.
C11_FromImageFlattenRoundTrip ==
  arg.kind = "image" =>
    /\ content.variant = "MultipleBlocks"
    /\ Len(content.blocks) = 1
    /\ content.blocks[1].type = "Image"
    /\ content.blocks[1].source = arg.val
    /\ (op = "flatten_into_image_source" /\ pc = "done") =>
         (result.tag = "Ok" /\ result.val = arg.val)

\* a source other than the default one went through from and the flatten
C11_Witness ==
  /\ arg.kind = "image" /\ arg.val = base64("Png", <<"d">>)
  /\ op = "flatten_into_image_source" /\ pc = "done"
  /\ result = Ok(base64("Png", <<"d">>))

C20_FlattenMutuallyExclusive ==
  (Flattening /\ pc = "done") =>
    LET other == IF op = "flatten_into_text"
                   THEN flatten_into_image_source(content)
                   ELSE flatten_into_text(content)
    IN  /\ ~(result.tag = "Ok" /\ other.tag = "Ok")
        /\ (content.variant = "MultipleBlocks" /\ Len(content.blocks) > 0) =>
             \/ (result.tag = "Ok" /\ other.tag = "Err"
                   /\ other.err = "NotFoundTargetBlock")
             \/ (other.tag = "Ok" /\ result.tag = "Err"
                   /\ result.err = "NotFoundTargetBlock")
        /\ (content.variant = "MultipleBlocks" /\ Len(content.blocks) = 0) =>
             (result.tag = "Err" /\ other.tag = "Err")

\* Image then Text: the image projection returned Ok, the text one does not
C20_Witness ==
  /\ op = "flatten_into_image_source" /\ pc = "done"
  /\ content.variant = "MultipleBlocks" /\ Len(content.blocks) = 2
  /\ content.blocks[1].type = "Image" /\ content.blocks[2].type = "Text"
  /\ result.tag = "Ok"
  /\ flatten_into_text(content) = Err("NotFoundTargetBlock")

\* C13: serializing a Content and deserializing what was written gives back
\* an equal Content of the same variant: SingleText for SingleText, and for
\* MultipleBlocks the same blocks in the same order, the empty sequence
\* included.
C13_SerializeRoundTrip ==
  (op = "round_trip" /\ pc = "done") =>
    /\ result.tag = "Ok"
    /\ result.val.variant = content.variant
    /\ result.val = content

\* a Text block and an Image block went through the wire and came back
C13_Witness ==
  /\ op = "round_trip" /\ pc = "done"
  /\ content = MultipleBlocks(<< TextContentBlock(<<"a">>),
                                 ImageContentBlock(base64("Png", <<"d">>)) >>)
  /\ wire.j = "array" /\ Len(wire.items) = 2
  /\ result = Ok(content)

\* C14: the wire shape follows the variant alone: SingleText is written as a
\* bare JSON string and MultipleBlocks as an array of objects whose first
\* field is the discriminant type, "text" for a Text block and "image" for an
\* Image block; a bare string is read as SingleText and an array as
\* MultipleBlocks, each element's variant chosen by its discriminant.
C14_WireShape ==
  /\ (op \in { "serialize", "round_trip" }) =>
       /\ content.variant = "SingleText" => wire = JStr(content.text)
       /\ content.variant = "MultipleBlocks" =>
            /\ wire.j = "array"
            /\ Len(wire.items) = Len(content.blocks)
            /\ \A i \in 1..Len(content.blocks) :
                 /\ wire.items[i].j = "object"
                 /\ wire.items[i].fields[1][1] = "type"
                 /\ wire.items[i].fields[1][2] =
                      JEnum(IF content.blocks[i].type = "Text" THEN "text" ELSE "image")
  /\ (op = "deserialize" /\ pc = "done") =>
       /\ (wire.j = "string" /\ "s" \in DOMAIN wire) => result = Ok(SingleText(wire.s))
       /\ (wire.j = "array" /\ result.tag = "Ok") =>
            /\ result.val.variant = "MultipleBlocks"
            /\ Len(result.val.blocks) = Len(wire.items)
            /\ \A i \in 1..Len(wire.items) :
                 Field(wire.items[i], "type").val =
                   JEnum(IF result.val.blocks[i].type = "Text" THEN "text" ELSE "image")
       /\ wire.j \notin { "string", "array" } => result.tag = "Err"

\* an array of an image object and a text object was read as MultipleBlocks
C14_Witness ==
  /\ op = "deserialize" /\ pc = "done"
  /\ wire.j = "array" /\ Len(wire.items) = 2
  /\ Field(wire.items[1], "type") = Some(JEnum("image"))
  /\ Field(wire.items[2], "type") = Some(JEnum("text"))
  /\ result.tag = "Ok"
  /\ result.val.variant = "MultipleBlocks"
  /\ result.val.blocks[1].type = "Image" /\ result.val.blocks[2].type = "Text"

\* the media type the claim gives for an extension
ExpectedMediaType(ext) ==
  IF ext.tag = "None" THEN Err(ImageMediaTypeParseError("NotFound", <<>>))
  ELSE IF ext.val \in { ext_jpeg, ext_jpg } THEN Ok("Jpeg")
  ELSE IF ext.val = ext_png THEN Ok("Png")
  ELSE IF ext.val = ext_gif THEN Ok("Gif")
  ELSE IF ext.val = ext_webp THEN Ok("Webp")
  ELSE Err(ImageMediaTypeParseError("NotSupported", ext.val))

\* C15: from_path maps the extension of the path: jpeg and jpg to Jpeg, png
\* to Png, gif to Gif, webp to Webp; any other extension fails with
\* NotSupported carrying exactly that extension; a path with no extension
\* fails with NotFound.
C15_FromPathByExtension ==
  (op = "from_path" /\ pc = "done") =>
    \A c \in PathCases : arg.val = c.path => result = ExpectedMediaType(c.ext)

\* d.png/a.b.jpg gave Jpeg
C15_Witness ==
  /\ op = "from_path" /\ pc = "done"
  /\ arg.val = <<"d", ".", "p", "n", "g", "/", "a", ".", "b", ".", "j", "p", "g">>
  /\ result = Ok("Jpeg")

\* the requests invocation i has handed to the transport
RequestsOf(i) == { k \in 1..Len(net) : net[k].inv = i }

Header(request, name) == FieldFrom(request.headers, name, 1)

\* C16: each invocation of create_a_message issues exactly one outbound POST,
\* with no second call after a failure, and that call carries x-api-key equal
\* to the client's key and anthropic-version equal to the client's version
\* string.
C16_OnePostWithBothHeaders ==
  \A i \in DOMAIN invs :
    /\ Cardinality(RequestsOf(i)) = IF invs[i].st = "idle" THEN 0 ELSE 1
    /\ \A k \in RequestsOf(i) :
         /\ net[k].request.method = "POST"
         /\ Len(net[k].request.headers) = 2
         /\ Header(net[k].request, "x-api-key") = Some(client.api_key)
         /\ Header(net[k].request, "anthropic-version")
              = Some(version_to_string[client.version])

\* a call failed in the transport and was not issued a second time
C16_Witness ==
  /\ client # Unset
  /\ \E i \in DOMAIN invs :
       /\ invs[i].st = "done"
       /\ invs[i].result = Err("Transport")
       /\ Cardinality(RequestsOf(i)) = 1

\* C17: calls running concurrently on one Client share no mutable state: no
\* step of any interleaving changes the client's key, version or transport
\* handle or a request already issued, and every request carries the key and
\* the version the client was constructed with.
C17_NoSharedMutableState ==
  [][ /\ client' = client
      /\ \A k \in 1..Len(net) : net'[k] = net[k]
      /\ \A k \in 1..Len(net') :
           /\ Header(net'[k].request, "x-api-key") = Some(client.api_key)
           /\ Header(net'[k].request, "anthropic-version")
                = Some(version_to_string[client.version]) ]_vars

\* two calls with different bodies are in flight at once on a client
\* constructed with the second key
C17_Witness ==
  /\ client # Unset
  /\ client.api_key = "key-b"
  /\ Len(net) = 2
  /\ invs[1].st = "sent" /\ invs[2].st = "sent"
  /\ invs[1].body # invs[2].body

MalformedDocs == { p \o m \o s : p \in Prefixes, m \in Malformed, s \in Suffixes }

\* C19: when a delimited span exists but has not the invoke / tool_name /
\* parameters shape, exclude_function_calls fails with a decoding error, which
\* is neither XmlNotFound nor a flatten error; it never returns an invocation,
\* partly filled or default.
C19_MalformedSpanIsDecodingError ==
  (Excluding /\ pc = "done" /\ text.tag = "Ok" /\ text.val \in MalformedDocs) =>
    /\ result.tag = "Err"
    /\ result.err.kind = "Deserialize"
    /\ result.err.kind \notin { "XmlNotFound", "ContentFlatteningError" }
    /\ calls = Stages

\* a region with no <parameters> element was refused by the decoder
C19_Witness ==
  /\ Excluding /\ pc = "done"
  /\ content = SingleText(start_tag \o OpenTag(invoke) \o Leaf(tool_name, <<"t">>)
                            \o CloseTag(invoke) \o end_tag)
  /\ xml.tag = "Some"
  /\ result = Err(ExcludingError("Deserialize", "none"))

\* the occurrences of the end delimiter in t
EndOccurrences(t) == { k \in Offsets(t) : MatchesAt(t, end_tag, k) }

\* C21: a span returned by extract_first_function_calls is a contiguous part
\* of the input, starts with the start delimiter, ends with the end
\* delimiter, is at least as long as the two delimiters together, and holds
\* the end delimiter once only, at its end; the end index computed at lines
\* 148-151 is never before the end of the start delimiter, so the bounds of
\* the slice at line 153 are valid.
C21_SpanWellFormed ==
  (ExtractorRan /\ xml.tag = "Some") =>
    LET span == xml.val
        t == text.val
        start == Find(t, start_tag)
    IN  /\ \E i \in Offsets(t) : i + Len(span) <= Len(t) /\ span = SubSeq(t, i + 1, i + Len(span))
        /\ MatchesAt(span, start_tag, 0)
        /\ MatchesAt(span, end_tag, Len(span) - Len(end_tag))
        /\ Len(span) >= Len(start_tag) + Len(end_tag)
        /\ EndOccurrences(span) = { Len(span) - Len(end_tag) }
        /\ start.tag = "Some"
        /\ LET e == end_index_of(t, start.val)
           IN  /\ e.tag = "Some"
               /\ e.val >= start.val + Len(start_tag)
               /\ start.val <= e.val + Len(end_tag)
               /\ e.val + Len(end_tag) <= Len(t)

\* a span was returned from a text that goes on with a second end delimiter
\* after the span
C21_Witness ==
  /\ ExtractorRan
  /\ xml.tag = "Some"
  /\ Cardinality(EndOccurrences(text.val)) >= 2
  /\ Find(text.val, start_tag) = Some(Len(end_tag))
  /\ Len(xml.val) = Len(start_tag) + Len(end_tag)

\* C22: exclude_function_calls looks at the first block only: with an Image
\* block in first place it fails with the flatten error NotFoundTargetBlock,
\* whatever a later Text block holds, and with a Text block in first place
\* that holds no region it fails with XmlNotFound, whatever a later block holds.
C22_OnlyFirstBlockExamined ==
  (Excluding /\ pc = "done" /\ content.variant = "MultipleBlocks"
     /\ Len(content.blocks) >= 1) =>
    /\ content.blocks[1].type = "Image" =>
         /\ result = Err(ExcludingError("ContentFlatteningError", "NotFoundTargetBlock"))
         /\ calls = << "flatten_into_text" >>
         /\ xml = Unset
    /\ (content.blocks[1].type = "Text" /\ ~HasSpan(content.blocks[1].text)) =>
         /\ text = Ok(content.blocks[1].text)
         /\ result = Err(ExcludingError("XmlNotFound", "none"))
         /\ calls = SubSeq(Stages, 1, 2)

\* an Image block followed by a Text block with a well-formed region was
\* refused with the flatten error
C22_Witness ==
  /\ Excluding /\ pc = "done"
  /\ content.variant = "MultipleBlocks"
  /\ Len(content.blocks) = 2
  /\ content.blocks[1].type = "Image"
  /\ content.blocks[2] = TextContentBlock(SecondRegion)
  /\ deserialize(SecondRegion, dup_policy).tag = "Ok"
  /\ result = Err(ExcludingError("ContentFlatteningError", "NotFoundTargetBlock"))

====
